---- MODULE Spec2Model ----
(***************************************************************************)
(* Model of cemba_data/tools/clustering.py: the consensus clustering sweep *)
(* (leiden_kmode_clustering and its two worker-pool fan-outs) and the      *)
(* selector/filter (judge_leiden_kmode_results, _select_optimal_k,         *)
(* _filter_cell_and_cluster), a direct call of _multi_leiden_clustering,   *)
(* and a call of _kmode_on_multi_leiden.                                   *)
(*                                                                         *)
(* In the judge floats are modelled by their order only: pureness,         *)
(* completeness and ambiguity are integer levels and the cutoffs are       *)
(* levels too, since the judge only compares them (>, <=);                 *)
(* cluster_portion_cutoff is a per mille.  _kmode_on_multi_leiden, which   *)
(* computes them, is modelled in float64 arithmetic.                       *)
(* A Python exception is a value of the variable that holds the call's     *)
(* outcome ("KeyError", "AttributeError", ...), "none" when none is raised.*)
(***************************************************************************)
EXTENDS Integers, Sequences, FiniteSets, TLC

VARIABLES
    uns,                    \* adata.uns: the two slots leiden_kmode_results / leiden_kmode_parameter
    obs,                    \* adata.obs: the LK_* columns written so far (column name -> column)
    pandas_sorts,           \* does this pandas build sort the index of DataFrame(dict of dicts)?
    pureness_cutoff,        \* judge_leiden_kmode_results arguments
    completeness_cutoff,
    cell_ambiguity_cutoff,
    cluster_portion_cutoff,
    jpc,                    \* position of judge_leiden_kmode_results
    ji,                     \* index of the resolution the judge loop is at
    best_resolution,        \* <<>> is None, <<r>> is resolution r
    max_opt_k,
    opt_ks,                 \* what the loop printed: <<resolution, opt_k>> per iteration
    cell_data,              \* the frame _filter_cell_and_cluster built when it stopped
    jexc,                   \* exception judge_leiden_kmode_results raised, "none" if none
    reported                \* the "None of the resolution and K ..." message was printed

judge_vars == <<obs, pandas_sorts, pureness_cutoff, completeness_cutoff,
                cell_ambiguity_cutoff, cluster_portion_cutoff, jpc, ji,
                best_resolution, max_opt_k, opt_ks, cell_data, jexc, reported>>

VARIABLES
    args,                   \* leiden_kmode_clustering arguments: n_cells, cpu, kmode_ks,
                            \*   leiden_repeats, resolutions, has_neighbors
    uns_before,             \* adata.uns as it was when leiden_kmode_clustering was called
    spc,                    \* position of leiden_kmode_clustering
    ri,                     \* index of the resolution the sweep loop is at
    total_results,          \* the local dict: one entry per resolution processed so far
    chunks,                 \* random_state_chunks of the running _multi_leiden_clustering
    fut_pending,            \* chunk futures as_completed has not yielded yet
    ml_results,             \* results: chunk frames in order of arrival
    matrix,                 \* what the last _multi_leiden_clustering returned: <<>> or <<columns>>
    mode_k,                 \* line 243
    kfut_pending,           \* k futures as_completed has not yielded yet
    k_result_dict,          \* _multi_kmode_clustering's dict, in order of arrival
    klog,                   \* per resolution past line 243: mode_k and the k tasks submitted
    leiden_failed,          \* a chunk task of the running ensemble raised
    worker_failed,          \* some worker task of the call raised
    exc                     \* exception leiden_kmode_clustering raised, "none" if none

sweep_vars == <<args, uns_before, spc, ri, total_results, chunks, fut_pending,
                ml_results, matrix, mode_k, kfut_pending, k_result_dict, klog,
                leiden_failed, worker_failed, exc>>

VARIABLES
    multi_leiden_result,    \* _kmode_on_multi_leiden's label matrix: cell -> run -> label
    task_k,                 \* its argument k
    clusters,               \* what km.fit_predict returned: cell -> cluster, <<>> before
    tpc,                    \* position of _kmode_on_multi_leiden
    task_result             \* the dict it returned, <<>> before

task_vars == <<multi_leiden_result, task_k, clusters, tpc, task_result>>

vars == <<uns, judge_vars, sweep_vars, task_vars>>

(***************************************************************************)
(* Bounds                                                                  *)
(***************************************************************************)
NumRes   == 2      \* resolutions in a sweep
NCell    == 3      \* cells in the dataset of the judge
MaxLevel == 2      \* pureness / completeness levels 0..MaxLevel
MaxAmb   == 1      \* ambiguity levels 0..MaxAmb
MaxCpu   == 3      \* worker pool sizes 1..MaxCpu

\* program constants
LeidenN  == 300    \* n=300 in the call of line 242
HardKMin == 5      \* hard_k_min, line 236

\* inputs of the sweep: cell counts, and the category counts a run can have
NCellsSet == {200, 500, 550}
CatCounts == {8, 20}
ExplicitKs == {<<>>, <<2, 3>>}
RepeatsSet == {100, 300}

Cells  == 1..NCell
Levels == 0..MaxLevel

NoneVal == <<>>
Some(x) == <<x>>

(***************************************************************************)
(* Helpers on sequences                                                    *)
(***************************************************************************)
Range(s) == {s[i] : i \in DOMAIN s}

SetMax(S) == CHOOSE x \in S : \A y \in S : y <= x

\* the subsequence of s whose elements satisfy Test, in order
RECURSIVE SelectRows(_, _)
SelectRows(s, keep) ==
    IF s = <<>> THEN <<>>
    ELSE IF Head(s) \in keep THEN <<Head(s)>> \o SelectRows(Tail(s), keep)
    ELSE SelectRows(Tail(s), keep)

\* rows ordered by ascending k (keys of a dict are distinct)
RECURSIVE SortByK(_)
SortByK(rows) ==
    IF rows = {} THEN <<>>
    ELSE LET m == CHOOSE r \in rows : \A q \in rows : r.k <= q.k
         IN <<m>> \o SortByK(rows \ {m})

(***************************************************************************)
(* Result bundles (the dict _kmode_on_multi_leiden returns).  The judge    *)
(* reads: k, cluster, overall_pureness, overall_completeness,              *)
(* cell_ambiguity, cluster_pureness, cluster_completeness.                 *)
(* A resolution's entry of leiden_kmode_results is None or a dict k ->     *)
(* bundle; a dict keeps insertion order, so it is a sequence of bundles    *)
(* with distinct k: [isNone |-> FALSE, items |-> <<b1, b2, ...>>].        *)
(***************************************************************************)
Min(a, b) == IF a < b THEN a ELSE b
Max(a, b) == IF a > b THEN a ELSE b

\* a cluster assignment of the cells that uses exactly n labels (n <= NCell)
ClusterWith(n) == [c \in Cells |-> (c - 1) % n]

AmbProfiles == {[c \in Cells |-> 0], [c \in Cells |-> IF c = 1 THEN MaxAmb ELSE 0]}

Bundle(k, n, p, c, amb) ==
    [k |-> k,
     cluster |-> ClusterWith(n),
     overall_pureness |-> p,
     overall_completeness |-> c,
     cell_ambiguity |-> amb,
     cluster_pureness |-> [l \in 0..(n - 1) |-> p],
     cluster_completeness |-> [l \in 0..(n - 1) |-> c]]

NoneResult == [isNone |-> TRUE, items |-> <<>>]
Dict(items) == [isNone |-> FALSE, items |-> items]

\* all sequences without repetition of at most n elements of S
RECURSIVE Arrangements(_, _)
Arrangements(S, n) ==
    IF n = 0 \/ S = {} THEN {<<>>}
    ELSE {<<>>} \cup {<<x>> \o rest : x \in S, rest \in Arrangements(S, n - 1)}

NoRepeat(s) == \A i, j \in DOMAIN s : i # j => s[i] # s[j]

KOrders(Ks) == {s \in Arrangements(Ks, Cardinality(Ks)) : NoRepeat(s)}

(***************************************************************************)
(* _select_optimal_k, lines 173-194                                        *)
(***************************************************************************)
\* line 180: result_dict['cluster'].unique().size
N_cluster(b) == Cardinality({b.cluster[c] : c \in DOMAIN b.cluster})

\* lines 177-180: one row per dict item, in dict order
OverallRows(items) ==
    [i \in DOMAIN items |->
        [k |-> items[i].k,
         pureness |-> items[i].overall_pureness,
         completeness |-> items[i].overall_completeness,
         n_cluster |-> N_cluster(items[i])]]

\* line 181: pd.DataFrame(dict of dicts): the index is the dicts' keys, sorted by
\* the pandas builds that sort it and in insertion order by the others
OverallDf(items, sorts) ==
    IF sorts THEN SortByK(Range(OverallRows(items))) ELSE OverallRows(items)

\* line 182 (NaN on an empty frame: equal to no row's n_cluster)
NClusterMax(df) ==
    IF df = <<>> THEN -1 ELSE SetMax({df[i].n_cluster : i \in DOMAIN df})

\* lines 184-185
PassCutoff(df, pcut, ccut) ==
    SelectRows(df, {r \in Range(df) : r.pureness > pcut /\ r.completeness > ccut})

\* lines 186-191: append rows, break after the first row with n_cluster_max
RECURSIVE ScanRows(_, _)
ScanRows(pass, n_cluster_max) ==
    IF pass = <<>> THEN <<>>
    ELSE IF Head(pass).n_cluster = n_cluster_max THEN <<Head(pass)>>
    ELSE <<Head(pass)>> \o ScanRows(Tail(pass), n_cluster_max)

\* lines 192-194: int(pass_cutoff['k'].max()); KeyError 'k' on the empty frame
OptimalKOf(rows) ==
    IF rows = <<>> THEN [exc |-> "KeyError", k |-> 0]
    ELSE [exc |-> "none", k |-> SetMax({rows[i].k : i \in DOMAIN rows})]

\* the whole function; None.items() is an AttributeError (line 177)
_select_optimal_k(kmode_results, pcut, ccut, sorts) ==
    IF kmode_results.isNone THEN [exc |-> "AttributeError", k |-> 0]
    ELSE LET df == OverallDf(kmode_results.items, sorts)
         IN OptimalKOf(ScanRows(PassCutoff(df, pcut, ccut), NClusterMax(df)))

(***************************************************************************)
(* _filter_cell_and_cluster, lines 197-229.  A DataFrame is a function     *)
(* from column names to columns; a column is a function on the cells.      *)
(* df[name] on a missing column raises KeyError.                           *)
(***************************************************************************)
HasColumn(df, name) == name \in DOMAIN df

AddColumn(df, name, col) ==
    [c \in (DOMAIN df) \cup {name} |-> IF c = name THEN col ELSE df[c]]

\* np.nan, the null marker of LK_masked_cluster; str() of an integer label
\* is a string of digits, never this one
NaN == "nan"

\* lines 203-207
NewCellData(result_dict) ==
    [c \in {"LK_cell_ambiguity", "LK_cluster"} |->
        IF c = "LK_cell_ambiguity" THEN result_dict.cell_ambiguity
        ELSE result_dict.cluster]

\* lines 209-212: the two .map() columns, read from cell_data[key]
MapClusterColumns(df, key, result_dict) ==
    AddColumn(
        AddColumn(df, "LK_cluster_pureness",
                  [c \in Cells |-> result_dict.cluster_pureness[df[key][c]]]),
        "LK_cluster_completeness",
        [c \in Cells |-> result_dict.cluster_completeness[df[key][c]]])

\* line 215
AmbiguityJudge(df, amb_cutoff) ==
    [c \in Cells |-> df["LK_cell_ambiguity"][c] <= amb_cutoff]

\* lines 217-220: clusters whose count among the ambiguity-passing cells is
\* above the portion (per mille) of the ambiguity-passing cells
PassClusters(df, ambiguity_judge, portion_cutoff) ==
    LET pass_cells == {c \in Cells : ambiguity_judge[c]}
        count(l) == Cardinality({c \in pass_cells : df["LK_cluster"][c] = l})
    IN {l \in {df["LK_cluster"][c] : c \in pass_cells} :
            count(l) * 1000 > Cardinality(pass_cells) * portion_cutoff}

\* lines 221-224
FinalJudge(df, amb_cutoff, portion_cutoff) ==
    LET aj == AmbiguityJudge(df, amb_cutoff)
        pc == PassClusters(df, aj, portion_cutoff)
    IN [c \in Cells |-> (df["LK_cluster"][c] \in pc) /\ aj[c]]

\* lines 227-228: the row lambda reads i[judge_key], then i[cluster_key]
MaskedCluster(df, judge_key, cluster_key) ==
    [c \in Cells |-> IF df[judge_key][c] THEN ToString(df[cluster_key][c]) ELSE NaN]

\* the whole function: [exc, frame]; frame is cell_data as it stood at the
\* return or at the raise
_filter_cell_and_cluster(result_dict, amb_cutoff, portion_cutoff) ==
    LET cd0 == NewCellData(result_dict)
    IN IF ~HasColumn(cd0, "cluster")                          \* line 211
       THEN [exc |-> "KeyError", frame |-> cd0]
       ELSE LET cd1 == MapClusterColumns(cd0, "cluster", result_dict)
                cd2 == AddColumn(cd1, "LK_final_judge",
                                 FinalJudge(cd1, amb_cutoff, portion_cutoff))
            IN IF ~HasColumn(cd2, "final_judge") \/ ~HasColumn(cd2, "cluster")   \* line 227
               THEN [exc |-> "KeyError", frame |-> cd2]
               ELSE [exc |-> "none",
                     frame |-> AddColumn(cd2, "LK_masked_cluster",
                                         MaskedCluster(cd2, "final_judge", "cluster"))]

(***************************************************************************)
(* judge_leiden_kmode_results, lines 279-318                               *)
(***************************************************************************)
\* lines 284-292
JudgeStart ==
    /\ jpc = "start"
    /\ IF ~uns.present
       THEN /\ jpc' = "raised"
            /\ jexc' = "KeyError"
            /\ UNCHANGED <<ji, best_resolution, max_opt_k>>
       ELSE /\ jpc' = "loop"
            /\ ji' = 1
            /\ best_resolution' = NoneVal
            /\ max_opt_k' = -1
            /\ UNCHANGED jexc
    /\ UNCHANGED <<uns, obs, pandas_sorts, pureness_cutoff, completeness_cutoff,
                   cell_ambiguity_cutoff, cluster_portion_cutoff, opt_ks,
                   cell_data, reported>>
    /\ UNCHANGED <<sweep_vars, task_vars>>

\* lines 300-302
BetterK(opt_k, best_k) == opt_k > best_k

\* one iteration of the loop, lines 293-302
JudgeResolution ==
    /\ jpc = "loop"
    /\ ji <= Len(uns.parameter.resolutions)
    /\ LET resolution == uns.parameter.resolutions[ji]
           sel == _select_optimal_k(uns.results[resolution], pureness_cutoff,
                                    completeness_cutoff, pandas_sorts)
       IN IF sel.exc # "none"
          THEN /\ jpc' = "raised"
               /\ jexc' = sel.exc
               /\ UNCHANGED <<ji, best_resolution, max_opt_k, opt_ks>>
          ELSE /\ opt_ks' = Append(opt_ks, <<resolution, sel.k>>)
               /\ IF BetterK(sel.k, max_opt_k)
                  THEN /\ best_resolution' = Some(resolution)
                       /\ max_opt_k' = sel.k
                  ELSE UNCHANGED <<best_resolution, max_opt_k>>
               /\ ji' = ji + 1
               /\ UNCHANGED <<jpc, jexc>>
    /\ UNCHANGED <<uns, obs, pandas_sorts, pureness_cutoff, completeness_cutoff,
                   cell_ambiguity_cutoff, cluster_portion_cutoff, cell_data, reported>>
    /\ UNCHANGED <<sweep_vars, task_vars>>

\* total_results[best_resolution][max_opt_k], line 305
BundleAt(kmode_results, k) ==
    LET i == CHOOSE j \in DOMAIN kmode_results.items : kmode_results.items[j].k = k
    IN kmode_results.items[i]

\* lines 313-314
WriteObs(old, frame) ==
    [c \in (DOMAIN old) \cup (DOMAIN frame) |->
        IF c \in DOMAIN frame THEN frame[c] ELSE old[c]]

\* lines 304-314
JudgeAnnotate ==
    /\ jpc = "loop"
    /\ ji > Len(uns.parameter.resolutions)
    /\ best_resolution # NoneVal
    /\ LET best_k_result == BundleAt(uns.results[best_resolution[1]], max_opt_k)
           res == _filter_cell_and_cluster(best_k_result, cell_ambiguity_cutoff,
                                           cluster_portion_cutoff)
       IN /\ cell_data' = res.frame
          /\ IF res.exc # "none"
             THEN /\ jpc' = "raised"
                  /\ jexc' = res.exc
                  /\ UNCHANGED obs
             ELSE /\ obs' = WriteObs(obs, res.frame)
                  /\ jpc' = "done"
                  /\ UNCHANGED jexc
    /\ UNCHANGED <<uns, pandas_sorts, pureness_cutoff, completeness_cutoff,
                   cell_ambiguity_cutoff, cluster_portion_cutoff, ji,
                   best_resolution, max_opt_k, opt_ks, reported>>
    /\ UNCHANGED <<sweep_vars, task_vars>>

\* lines 315-318
JudgeReport ==
    /\ jpc = "loop"
    /\ ji > Len(uns.parameter.resolutions)
    /\ best_resolution = NoneVal
    /\ reported' = TRUE
    /\ jpc' = "done"
    /\ UNCHANGED <<uns, obs, pandas_sorts, pureness_cutoff, completeness_cutoff,
                   cell_ambiguity_cutoff, cluster_portion_cutoff, ji,
                   best_resolution, max_opt_k, opt_ks, cell_data, jexc>>
    /\ UNCHANGED <<sweep_vars, task_vars>>

(***************************************************************************)
(* _multi_leiden_clustering, lines 10-67                                   *)
(***************************************************************************)
\* line 25: range(99999), the population the seeds are drawn from
SeedPopulation == 99999

\* np.random.seed(seed_of_seeds) fixes the generator's permutation of the
\* population; a fixed bijection of 0..SeedPopulation-1 stands for it
PermutationAt(seed_of_seeds, i) == (i * 7919 + seed_of_seeds) % SeedPopulation

\* lines 24-25: np.random.choice(range(99999), size=n, replace=False) is the
\* first n entries of that permutation (n <= SeedPopulation)
RandomStates(n, seed_of_seeds) == [i \in 1..n |-> PermutationAt(seed_of_seeds, i - 1)]

\* line 27 with range(0, n - step + 1, step): only the full chunks
RandomStateChunksFullOnly(n, cpu) ==
    LET step == Max(n \div cpu, 5)
    IN [j \in 1..(n \div step) |-> [lo |-> (j - 1) * step, hi |-> j * step]]

\* lines 26-27: chunk j holds random_states[lo:hi]
RandomStateChunks(n, cpu) ==
    LET step == Max(n \div cpu, 5)
        count == (n + step - 1) \div step
    IN [j \in 1..count |-> [lo |-> (j - 1) * step, hi |-> Min(j * step, n)]]

\* a handler that prints the exception and goes on with the next future
OnChunkExceptionSwallowed(at) == at

\* lines 62-64: the except clause prints and raises exc; the position the
\* caller is at after it, coming from position at
OnChunkException(at) == "raised"

\* a handler that prints the exception and goes on with the next future
OnKExceptionSwallowed(at) == at

\* lines 167-169: the except clause prints and raises
OnKException(at) == "raised"

\* python's list(range(lo, hi, step))
PyRange(lo, hi, step) ==
    LET len == IF hi <= lo THEN 0 ELSE (hi - lo + step - 1) \div step
    IN [i \in 1..len |-> lo + (i - 1) * step]

\* number of columns (runs) of the arrived chunk frames that have v categories
RECURSIVE ColumnsWith(_, _, _)
ColumnsWith(frames, chs, v) ==
    IF frames = <<>> THEN 0
    ELSE (IF Head(frames).ncat = v
          THEN chs[Head(frames).chunk].hi - chs[Head(frames).chunk].lo ELSE 0)
         + ColumnsWith(Tail(frames), chs, v)

\* line 243, .mode(): the most frequent category counts over the columns
ModeOfCounts(frames, chs) ==
    LET seen == {frames[i].ncat : i \in DOMAIN frames}
    IN {v \in seen : \A w \in seen :
            ColumnsWith(frames, chs, w) <= ColumnsWith(frames, chs, v)}

\* line 237
HardKMax(n_cells) == n_cells \div 50

\* the window of the low-level sweep (line 147) used in place of line 246's
AutoKsLowLevel(m, n_cells) ==
    PyRange(Max(2, m - 5), Min(m * 2, HardKMax(n_cells)), 2)

\* line 246 with the upper end of the window included
AutoKsInclusive(m, n_cells) ==
    PyRange(Max(m - 10, HardKMin), Min(m * 2, HardKMax(n_cells)) + 1, 2)

\* line 246
AutoKs(m, n_cells) ==
    PyRange(Max(m - 10, HardKMin), Min(m * 2, HardKMax(n_cells)), 2)

\* lines 244-255: the k list of a resolution
KmodeKs(kmode_ks, m, n_cells) ==
    IF kmode_ks.auto THEN AutoKs(m, n_cells) ELSE kmode_ks.ks

\* the empty range is not caught: the code falls through to line 256
SkipsNothing(kmode_ks, ks) == FALSE

\* lines 247-253: an empty auto range skips the resolution
SkipsResolution(kmode_ks, ks) == kmode_ks.auto /\ Len(ks) = 0

\* what a k task returns: the sweep stores it unread, so one bundle per k
\* stands for all of them here (the judge's initial states draw the contents)
TaskBundles(k) ==
    {Bundle(k, Min(k, NCell), MaxLevel, MaxLevel, [c \in Cells |-> 0])}

(***************************************************************************)
(* leiden_kmode_clustering, lines 233-274                                  *)
(***************************************************************************)
\* lines 240-242 and 14-55: next resolution, submit one task per chunk
LeidenSubmit ==
    /\ spc = "loop"
    /\ ri <= Len(args.resolutions)
    /\ IF ~args.has_neighbors
       THEN /\ spc' = "raised"
            /\ exc' = "ValueError"
            /\ UNCHANGED <<chunks, fut_pending, ml_results, matrix, leiden_failed>>
       ELSE /\ chunks' = RandomStateChunks(LeidenN, args.cpu)
            /\ fut_pending' = DOMAIN chunks'
            /\ ml_results' = <<>>
            /\ matrix' = NoneVal
            /\ leiden_failed' = FALSE
            /\ spc' = "leiden"
            /\ UNCHANGED exc
    /\ UNCHANGED <<uns, judge_vars, task_vars, args, uns_before, ri, total_results, mode_k,
                   kfut_pending, k_result_dict, klog, worker_failed>>

\* lines 57-61: as_completed yields a chunk future that succeeded
LeidenArrive(c) ==
    /\ spc = "leiden"
    /\ c \in fut_pending
    /\ \E ncat \in CatCounts :
          ml_results' = Append(ml_results, [chunk |-> c, ncat |-> ncat])
    /\ fut_pending' = fut_pending \ {c}
    /\ UNCHANGED <<uns, judge_vars, task_vars, args, uns_before, spc, ri, total_results, chunks,
                   matrix, mode_k, kfut_pending, k_result_dict, klog, leiden_failed,
                   worker_failed, exc>>

\* lines 57-64: as_completed yields a chunk future that raised
LeidenFail(c) ==
    /\ spc = "leiden"
    /\ c \in fut_pending
    /\ fut_pending' = fut_pending \ {c}
    /\ leiden_failed' = TRUE
    /\ worker_failed' = TRUE
    /\ spc' = OnChunkException(spc)
    /\ exc' = IF spc' = "raised" THEN "WorkerError" ELSE exc
    /\ UNCHANGED <<uns, judge_vars, task_vars, args, uns_before, ri, total_results, chunks,
                   ml_results, matrix, mode_k, kfut_pending, k_result_dict, klog>>

\* lines 65-67, then 243-262 and 142-160: the matrix is returned, mode_k and
\* the k list are computed, the resolution is skipped or its k tasks submitted
LeidenDone ==
    /\ spc = "leiden"
    /\ fut_pending = {}
    /\ IF ml_results = <<>>
       THEN \* pd.concat of an empty list
            /\ spc' = "raised"
            /\ exc' = "ValueError"
            /\ UNCHANGED <<matrix, mode_k, ri, total_results, kfut_pending,
                           k_result_dict, klog>>
       ELSE /\ matrix' = Some([i \in DOMAIN ml_results |-> ml_results[i].chunk])
            /\ LET modes == ModeOfCounts(ml_results, chunks)
               IN IF Cardinality(modes) # 1
                  THEN \* int() of a Series of several modes
                       /\ spc' = "raised"
                       /\ exc' = "TypeError"
                       /\ UNCHANGED <<mode_k, ri, total_results, kfut_pending,
                                      k_result_dict, klog>>
                  ELSE LET m == CHOOSE v \in modes : TRUE
                           ks == KmodeKs(args.kmode_ks, m, args.n_cells)
                       IN /\ mode_k' = m
                          /\ IF SkipsResolution(args.kmode_ks, ks)
                             THEN /\ total_results' = Append(total_results, NoneResult)
                                  /\ klog' = Append(klog, [mode_k |-> m, submitted |-> <<>>])
                                  /\ ri' = ri + 1
                                  /\ spc' = "loop"
                                  /\ UNCHANGED <<kfut_pending, k_result_dict, exc>>
                             ELSE IF Len(ks) = 0
                             THEN \* lines 256-257: np.array([]).min()
                                  /\ klog' = Append(klog, [mode_k |-> m, submitted |-> <<>>])
                                  /\ spc' = "raised"
                                  /\ exc' = "ValueError"
                                  /\ UNCHANGED <<ri, total_results, kfut_pending,
                                                 k_result_dict>>
                             ELSE /\ klog' = Append(klog, [mode_k |-> m, submitted |-> ks])
                                  /\ kfut_pending' = Range(ks)
                                  /\ k_result_dict' = <<>>
                                  /\ spc' = "kmode"
                                  /\ UNCHANGED <<ri, total_results, exc>>
    /\ ml_results' = <<>>
    /\ UNCHANGED <<uns, judge_vars, task_vars, args, uns_before, chunks, fut_pending,
                   leiden_failed, worker_failed>>

\* lines 162-166: as_completed yields a k future that succeeded
KmodeArrive(k) ==
    /\ spc = "kmode"
    /\ k \in kfut_pending
    /\ \E b \in TaskBundles(k) : k_result_dict' = Append(k_result_dict, b)
    /\ kfut_pending' = kfut_pending \ {k}
    /\ UNCHANGED <<uns, judge_vars, task_vars, args, uns_before, spc, ri, total_results, chunks,
                   fut_pending, ml_results, matrix, mode_k, klog, leiden_failed,
                   worker_failed, exc>>

\* lines 162-169: as_completed yields a k future that raised
KmodeFail(k) ==
    /\ spc = "kmode"
    /\ k \in kfut_pending
    /\ kfut_pending' = kfut_pending \ {k}
    /\ worker_failed' = TRUE
    /\ spc' = OnKException(spc)
    /\ exc' = IF spc' = "raised" THEN "WorkerError" ELSE exc
    /\ UNCHANGED <<uns, judge_vars, task_vars, args, uns_before, ri, total_results, chunks,
                   fut_pending, ml_results, matrix, mode_k, k_result_dict, klog,
                   leiden_failed>>

\* lines 170, 263: the dict is returned and stored under the resolution; the
\* iteration ends, its locals (results, the returned dict) are not read again
KmodeDone ==
    /\ spc = "kmode"
    /\ kfut_pending = {}
    /\ total_results' = Append(total_results, Dict(k_result_dict))
    /\ k_result_dict' = <<>>
    /\ matrix' = NoneVal
    /\ ri' = ri + 1
    /\ spc' = "loop"
    /\ UNCHANGED <<uns, judge_vars, task_vars, args, uns_before, chunks, fut_pending, ml_results,
                   mode_k, kfut_pending, klog, leiden_failed, worker_failed, exc>>

\* lines 266-273
PersistedUns(results, a) ==
    [present |-> TRUE,
     results |-> results,
     parameter |-> [resolutions |-> a.resolutions,
                    kmode_ks |-> a.kmode_ks,
                    hard_k_min |-> HardKMin,
                    hard_k_max |-> HardKMax(a.n_cells),
                    leiden_repeats |-> a.leiden_repeats]]

\* lines 264-274: after the loop
Persist ==
    /\ spc = "loop"
    /\ ri > Len(args.resolutions)
    /\ uns' = PersistedUns(total_results, args)
    /\ spc' = "done"
    /\ UNCHANGED <<judge_vars, task_vars, args, uns_before, ri, total_results, chunks,
                   fut_pending, ml_results, matrix, mode_k, kfut_pending,
                   k_result_dict, klog, leiden_failed, worker_failed, exc>>

(***************************************************************************)
(* Initial states and specifications                                       *)
(***************************************************************************)
AllResolutions == [i \in 1..NumRes |-> i]

AbsentUns ==
    [present |-> FALSE, results |-> <<>>,
     parameter |-> [resolutions |-> <<>>, kmode_ks |-> [auto |-> TRUE, ks |-> <<>>],
                    hard_k_min |-> HardKMin, hard_k_max |-> 0, leiden_repeats |-> 0]]

\* what an earlier, completed sweep left: here one of a single skipped resolution
OldUns ==
    PersistedUns(<<NoneResult>>,
                 [resolutions |-> <<1>>, kmode_ks |-> [auto |-> TRUE, ks |-> <<>>],
                  n_cells |-> 0, leiden_repeats |-> LeidenN])

SweepIdle ==
    /\ args = [n_cells |-> 0, cpu |-> 1, kmode_ks |-> [auto |-> TRUE, ks |-> <<>>],
               leiden_repeats |-> 0, resolutions |-> <<>>, has_neighbors |-> TRUE]
    /\ uns_before = uns
    /\ spc = "idle"
    /\ ri = 1
    /\ total_results = <<>>
    /\ chunks = <<>>
    /\ fut_pending = {}
    /\ ml_results = <<>>
    /\ matrix = NoneVal
    /\ mode_k = 0
    /\ kfut_pending = {}
    /\ k_result_dict = <<>>
    /\ klog = <<>>
    /\ leiden_failed = FALSE
    /\ worker_failed = FALSE
    /\ exc = "none"

JudgeIdle ==
    /\ obs = <<>>
    /\ pandas_sorts = FALSE
    /\ pureness_cutoff = 0
    /\ completeness_cutoff = 0
    /\ cell_ambiguity_cutoff = 0
    /\ cluster_portion_cutoff = 0
    /\ jpc = "idle"
    /\ ji = 1
    /\ best_resolution = NoneVal
    /\ max_opt_k = -1
    /\ opt_ks = <<>>
    /\ cell_data = <<>>
    /\ jexc = "none"
    /\ reported = FALSE

TaskIdle ==
    /\ multi_leiden_result = <<>>
    /\ task_k = 0
    /\ clusters = <<>>
    /\ tpc = "idle"
    /\ task_result = <<>>

\* a call of leiden_kmode_clustering (lines 235-239 done)
Init ==
    /\ JudgeIdle
    /\ TaskIdle
    /\ uns \in {AbsentUns, OldUns}
    /\ uns_before = uns
    /\ args \in [n_cells : NCellsSet,
                 cpu : 1..MaxCpu,
                 kmode_ks : {[auto |-> TRUE, ks |-> <<>>]}
                            \cup {[auto |-> FALSE, ks |-> ks] : ks \in ExplicitKs},
                 leiden_repeats : RepeatsSet,
                 resolutions : {AllResolutions},
                 has_neighbors : BOOLEAN]
    \* n_cells only matters to the auto window: one cell count with explicit ks
    /\ args.kmode_ks.auto \/ args.n_cells = 500
    /\ spc = "loop"
    /\ ri = 1
    /\ total_results = <<>>
    /\ chunks = <<>>
    /\ fut_pending = {}
    /\ ml_results = <<>>
    /\ matrix = NoneVal
    /\ mode_k = 0
    /\ kfut_pending = {}
    /\ k_result_dict = <<>>
    /\ klog = <<>>
    /\ leiden_failed = FALSE
    /\ worker_failed = FALSE
    /\ exc = "none"

Next ==
    \/ LeidenSubmit
    \/ \E c \in 1..LeidenN : LeidenArrive(c)
    \/ \E c \in 1..LeidenN : LeidenFail(c)
    \/ LeidenDone
    \/ \E k \in kfut_pending : KmodeArrive(k)
    \/ \E k \in kfut_pending : KmodeFail(k)
    \/ KmodeDone
    \/ Persist

Spec == Init /\ [][Next]_vars

(***************************************************************************)
(* A call of judge_leiden_kmode_results on what a sweep left in adata.uns: *)
(* per resolution None (skipped) or a dict of bundles in any arrival order.*)
(* Two families of datasets: one resolution with up to three candidate k   *)
(* and any pureness/completeness levels, or NumRes resolutions with up to  *)
(* two candidate k each.                                                   *)
(***************************************************************************)
RichKs  == {2, 3, 4}
SmallKs == {2, 3}

RichBundles(k) ==
    {Bundle(k, n, p, c, [x \in Cells |-> 0]) :
        n \in 1..Min(k, NCell), p \in Levels, c \in {0, MaxLevel}}

SmallBundles(k) ==
    {Bundle(k, n, q, q, [x \in Cells |-> 0]) : n \in {1, Min(k, NCell)}, q \in {0, MaxLevel}}
    \cup {Bundle(k, Min(k, NCell), MaxLevel, MaxLevel, amb) : amb \in AmbProfiles}

\* the dicts whose keys, in insertion order, are ks
RECURSIVE DictsOver(_, _, _)
DictsOver(ks, i, rich) ==
    IF i > Len(ks) THEN {<<>>}
    ELSE {<<b>> \o rest :
            b \in (IF rich THEN RichBundles(ks[i]) ELSE SmallBundles(ks[i])),
            rest \in DictsOver(ks, i + 1, rich)}

\* None, or a dict of at least one k (the sweep stores no empty dict)
Entries(Ks, rich) ==
    {NoneResult} \cup
    {Dict(d) : d \in UNION {DictsOver(ks, 1, rich) : ks \in KOrders(Ks) \ {<<>>}}}

JudgeUns(results) ==
    PersistedUns(results,
                 [resolutions |-> [i \in DOMAIN results |-> i],
                  kmode_ks |-> [auto |-> TRUE, ks |-> <<>>],
                  n_cells |-> NCell, leiden_repeats |-> LeidenN])

InitJudge ==
    /\ \/ /\ uns \in {AbsentUns, JudgeUns(<<>>)}
                      \cup {JudgeUns(<<e>>) : e \in Entries(RichKs, TRUE)}
          /\ pureness_cutoff = 0
       \/ /\ uns \in {JudgeUns(r) : r \in [1..NumRes -> Entries(SmallKs, FALSE)]}
          /\ pureness_cutoff \in 0..(MaxLevel - 1)
    /\ SweepIdle
    /\ TaskIdle
    /\ obs = <<>>
    /\ pandas_sorts \in BOOLEAN
    /\ completeness_cutoff = MaxLevel - 1
    /\ cell_ambiguity_cutoff = 0
    /\ cluster_portion_cutoff = 5
    /\ jpc = "start"
    /\ ji = 1
    /\ best_resolution = NoneVal
    /\ max_opt_k = -1
    /\ opt_ks = <<>>
    /\ cell_data = <<>>
    /\ jexc = "none"
    /\ reported = FALSE

NextJudge ==
    \/ JudgeStart
    \/ JudgeResolution
    \/ JudgeAnnotate
    \/ JudgeReport

SpecJudge == InitJudge /\ [][NextJudge]_vars

(***************************************************************************)
(* A direct call of _multi_leiden_clustering(adata, n, seed_of_seeds, cpu).*)
(* args holds the arguments of that call; spc is the position of the call, *)
(* chunks, fut_pending, ml_results, matrix its locals as in the sweep.     *)
(***************************************************************************)
MaxN == 12     \* repeat counts 1..MaxN

\* the repeat counts of a call: small ones, and one above the seed population
RepeatCounts == (1..MaxN) \cup {SeedPopulation + 1}
SeedsOfSeeds == {0, 1}

\* lines 14-55: the graph, the seeds, the chunks, one submitted task per chunk
EnsembleCall ==
    /\ spc = "call"
    /\ IF ~args.has_neighbors                      \* line 17
       THEN /\ spc' = "raised"
            /\ exc' = "ValueError"
            /\ UNCHANGED <<chunks, fut_pending>>
       ELSE IF args.n > SeedPopulation             \* line 25: sample larger than population
       THEN /\ spc' = "raised"
            /\ exc' = "ValueError"
            /\ UNCHANGED <<chunks, fut_pending>>
       ELSE /\ chunks' = RandomStateChunks(args.n, args.cpu)
            /\ fut_pending' = DOMAIN chunks'
            /\ spc' = "leiden"
            /\ UNCHANGED exc
    /\ UNCHANGED <<uns, judge_vars, task_vars, args, uns_before, ri, total_results, ml_results,
                   matrix, mode_k, kfut_pending, k_result_dict, klog, leiden_failed,
                   worker_failed>>

\* lines 65-67: the frames are concatenated in the order they arrived
EnsembleReturn ==
    /\ spc = "leiden"
    /\ fut_pending = {}
    /\ IF ml_results = <<>>
       THEN /\ spc' = "raised"
            /\ exc' = "ValueError"
            /\ UNCHANGED matrix
       ELSE /\ matrix' = Some([i \in DOMAIN ml_results |-> ml_results[i].chunk])
            /\ spc' = "returned"
            /\ UNCHANGED exc
    /\ UNCHANGED <<uns, judge_vars, task_vars, args, uns_before, ri, total_results, chunks,
                   fut_pending, ml_results, mode_k, kfut_pending, k_result_dict, klog,
                   leiden_failed, worker_failed>>

InitEnsemble ==
    /\ JudgeIdle
    /\ TaskIdle
    /\ uns = AbsentUns
    /\ uns_before = uns
    /\ args \in [n : RepeatCounts, seed_of_seeds : SeedsOfSeeds, cpu : 1..MaxCpu,
                 has_neighbors : BOOLEAN]
    /\ spc = "call"
    /\ ri = 1
    /\ total_results = <<>>
    /\ chunks = <<>>
    /\ fut_pending = {}
    /\ ml_results = <<>>
    /\ matrix = NoneVal
    /\ mode_k = 0
    /\ kfut_pending = {}
    /\ k_result_dict = <<>>
    /\ klog = <<>>
    /\ leiden_failed = FALSE
    /\ worker_failed = FALSE
    /\ exc = "none"

NextEnsemble ==
    \/ EnsembleCall
    \/ \E c \in 1..MaxN : LeidenArrive(c)
    \/ \E c \in 1..MaxN : LeidenFail(c)
    \/ EnsembleReturn

SpecEnsemble == InitEnsemble /\ [][NextEnsemble]_vars

(***************************************************************************)
(* float64 arithmetic, as numpy performs it in _kmode_on_multi_leiden.     *)
(* A natural number is the sequence of its base-2^14 limbs, lowest first,  *)
(* without leading zero limbs.  A float is [nan, m, e]: m * 2^e with m a   *)
(* natural of exactly 53 bits, or m = <<>> for 0.0; every operation rounds *)
(* its exact result to the nearest such number, ties to the even m.        *)
(***************************************************************************)
LimbBits     == 14
MantissaBits == 53
Base         == 2^LimbBits

RECURSIVE NatOf(_)
NatOf(i) == IF i = 0 THEN <<>> ELSE <<i % Base>> \o NatOf(i \div Base)

RECURSIVE Trim(_)
Trim(x) ==
    IF x = <<>> THEN <<>>
    ELSE IF x[Len(x)] = 0 THEN Trim(SubSeq(x, 1, Len(x) - 1)) ELSE x

LowLimb(x) == IF x = <<>> THEN 0 ELSE Head(x)
HighLimbs(x) == IF x = <<>> THEN <<>> ELSE Tail(x)

RECURSIVE NatAddC(_, _, _)
NatAddC(x, y, carry) ==
    IF x = <<>> /\ y = <<>> THEN NatOf(carry)
    ELSE LET t == LowLimb(x) + LowLimb(y) + carry
         IN <<t % Base>> \o NatAddC(HighLimbs(x), HighLimbs(y), t \div Base)

NatAdd(x, y) == NatAddC(x, y, 0)

\* x - y - borrow for x >= y + borrow
RECURSIVE NatSubB(_, _, _)
NatSubB(x, y, borrow) ==
    IF x = <<>> THEN <<>>
    ELSE LET t == LowLimb(x) - LowLimb(y) - borrow
         IN <<(t + Base) % Base>>
            \o NatSubB(HighLimbs(x), HighLimbs(y), IF t < 0 THEN 1 ELSE 0)

NatSub(x, y) == Trim(NatSubB(x, y, 0))

\* x * d + carry for a limb-sized d
RECURSIVE NatMulSmall(_, _, _)
NatMulSmall(x, d, carry) ==
    IF x = <<>> THEN NatOf(carry)
    ELSE LET t == Head(x) * d + carry
         IN <<t % Base>> \o NatMulSmall(Tail(x), d, t \div Base)

RECURSIVE NatMul(_, _)
NatMul(x, y) ==
    IF x = <<>> \/ y = <<>> THEN <<>>
    ELSE Trim(NatAdd(NatMulSmall(x, Head(y), 0), <<0>> \o NatMul(x, Tail(y))))

\* quotient and remainder of x by a limb-sized d > 0
RECURSIVE NatDivSmallRaw(_, _)
NatDivSmallRaw(x, d) ==
    IF x = <<>> THEN [q |-> <<>>, r |-> 0]
    ELSE LET high == NatDivSmallRaw(Tail(x), d)
             cur == high.r * Base + Head(x)
         IN [q |-> <<cur \div d>> \o high.q, r |-> cur % d]

NatDivSmall(x, d) ==
    LET raw == NatDivSmallRaw(x, d) IN [q |-> Trim(raw.q), r |-> raw.r]

\* -1, 0, 1 as x <, =, > y
RECURSIVE NatCmp(_, _)
NatCmp(x, y) ==
    IF Len(x) # Len(y) THEN (IF Len(x) < Len(y) THEN -1 ELSE 1)
    ELSE IF x = <<>> THEN 0
    ELSE IF x[Len(x)] # y[Len(y)] THEN (IF x[Len(x)] < y[Len(y)] THEN -1 ELSE 1)
    ELSE NatCmp(SubSeq(x, 1, Len(x) - 1), SubSeq(y, 1, Len(y) - 1))

RECURSIVE IntBitLen(_)
IntBitLen(i) == IF i = 0 THEN 0 ELSE 1 + IntBitLen(i \div 2)

BitLen(x) == IF x = <<>> THEN 0 ELSE (Len(x) - 1) * LimbBits + IntBitLen(x[Len(x)])

ShiftLeft(x, n) ==
    IF x = <<>> THEN <<>>
    ELSE [i \in 1..(n \div LimbBits) |-> 0] \o NatMulSmall(x, 2^(n % LimbBits), 0)

\* floor(x / 2^n)
ShiftRight(x, n) ==
    LET limbs == n \div LimbBits
    IN IF limbs >= Len(x) THEN <<>>
       ELSE NatDivSmall(SubSeq(x, limbs + 1, Len(x)), 2^(n % LimbBits)).q

FZero == [nan |-> FALSE, m |-> <<>>, e |-> 0]
FNaN  == [nan |-> TRUE,  m |-> <<>>, e |-> 0]

\* the float nearest to n * 2^e (plus a non-zero part below the last bit of n
\* when sticky), ties to even
RoundToFloat(n, e, sticky) ==
    LET len == BitLen(n)
    IN IF n = <<>> THEN FZero
       ELSE IF len <= MantissaBits
       THEN [nan |-> FALSE, m |-> ShiftLeft(n, MantissaBits - len),
             e |-> e - (MantissaBits - len)]
       ELSE LET drop == len - MantissaBits
                q == ShiftRight(n, drop)
                rem == NatSub(n, ShiftLeft(q, drop))
                c == NatCmp(rem, ShiftLeft(<<1>>, drop - 1))
                up == c > 0 \/ (c = 0 /\ (sticky \/ Head(q) % 2 = 1))
                r == IF up THEN NatAdd(q, <<1>>) ELSE q
            IN IF BitLen(r) > MantissaBits
               THEN [nan |-> FALSE, m |-> ShiftRight(r, 1), e |-> e + drop + 1]
               ELSE [nan |-> FALSE, m |-> r, e |-> e + drop]

\* float(i) of a count
FloatOf(i) == RoundToFloat(NatOf(i), 0, FALSE)

\* x / d for an integer d: d = 0 gives inf or nan with a warning, no exception
FloatDivInt(x, d) ==
    IF x.nan \/ d = 0 THEN FNaN
    ELSE LET qr == NatDivSmall(ShiftLeft(x.m, 2 * LimbBits), d)
         IN RoundToFloat(qr.q, x.e - 2 * LimbBits, qr.r # 0)

\* a / b of two counts
CountDiv(a, b) == FloatDivInt(FloatOf(a), b)

FloatAdd(x, y) ==
    IF x.nan \/ y.nan THEN FNaN
    ELSE IF x.m = <<>> THEN y
    ELSE IF y.m = <<>> THEN x
    ELSE LET low == Min(x.e, y.e)
         IN RoundToFloat(NatAdd(ShiftLeft(x.m, x.e - low), ShiftLeft(y.m, y.e - low)),
                         low, FALSE)

FloatMul(x, y) ==
    IF x.nan \/ y.nan THEN FNaN
    ELSE RoundToFloat(NatMul(x.m, y.m), x.e + y.e, FALSE)

\* -1, 0, 1 as x <, =, > y (neither is nan)
FloatCmp(x, y) ==
    IF x.m = <<>> \/ y.m = <<>>
    THEN (IF x.m = y.m THEN 0 ELSE IF x.m = <<>> THEN -1 ELSE 1)
    ELSE LET low == Min(x.e, y.e)
         IN NatCmp(ShiftLeft(x.m, x.e - low), ShiftLeft(y.m, y.e - low))

\* x - y for x >= y
FloatSub(x, y) ==
    IF x.nan \/ y.nan THEN FNaN
    ELSE IF y.m = <<>> THEN x
    ELSE LET low == Min(x.e, y.e)
         IN RoundToFloat(NatSub(ShiftLeft(x.m, x.e - low), ShiftLeft(y.m, y.e - low)),
                         low, FALSE)

\* add.reduce of fewer than eight numbers: one after the other
RECURSIVE FloatSumFrom(_, _)
FloatSumFrom(acc, xs) ==
    IF xs = <<>> THEN acc ELSE FloatSumFrom(FloatAdd(acc, Head(xs)), Tail(xs))

FloatSum(xs) == FloatSumFrom(FZero, xs)

\* np.array(xs).mean(): the sum divided by the count
FloatMean(xs) == FloatDivInt(FloatSum(xs), Len(xs))

(***************************************************************************)
(* _kmode_on_multi_leiden, lines 83-139                                    *)
(***************************************************************************)
\* a set of integers as the ascending sequence of its elements
RECURSIVE Ascending(_)
Ascending(S) ==
    IF S = {} THEN <<>>
    ELSE LET m == CHOOSE x \in S : \A y \in S : x <= y
         IN <<m>> \o Ascending(S \ {m})

NTaskCell == 10     \* cells of the label matrices

\* the cells (rows), runs (columns) and labels of the label matrices, the k of
\* the tasks
TaskCells == 1..NTaskCell
Runs      == {1, 2}
LabelSet  == {0, 1}
TaskKs    == {1, 2, 4}

\* the labellings of a run: the first s cells in one community, the others in
\* another
Splits == {0, 3, 5, NTaskCell}
RunLabels(s) == [c \in TaskCells |-> IF c <= s THEN 0 ELSE 1]

\* the label matrices: cell -> run -> label
LabelMatrices ==
    {[c \in TaskCells |-> [col \in Runs |-> RunLabels(split[col])[c]]] :
        split \in [Runs -> Splits]}

\* the ordered lists of at most k positive cluster sizes that sum to n
RECURSIVE SizeLists(_, _)
SizeLists(n, k) ==
    IF n = 0 THEN {<<>>}
    ELSE IF k = 0 THEN {}
    ELSE UNION {{<<first>> \o rest : rest \in SizeLists(n - first, k - 1)} :
                    first \in 1..n}

\* the cluster of cell c when clusters 0, 1, ... take the cells in turn,
\* sizes[1] cells, then sizes[2] cells, ...
RECURSIVE ClusterOfCell(_, _, _)
ClusterOfCell(sizes, c, cluster) ==
    IF c <= Head(sizes) THEN cluster
    ELSE ClusterOfCell(Tail(sizes), c - Head(sizes), cluster + 1)

\* line 88: the assignments km.fit_predict can return, up to the order of the cells
FitPredicts(k) ==
    {[c \in TaskCells |-> ClusterOfCell(sizes, c, 0)] : sizes \in SizeLists(NTaskCell, k)}

\* line 95: the cells of sub_df, the group of one cluster
SubRows(final_cluster, cluster) == {c \in TaskCells : final_cluster[c] = cluster}

\* number of the given cells whose label in run col is label
CountEq(results, rows, col, label) ==
    Cardinality({c \in rows : results[c][col] = label})

\* line 96: sub_df.mode().T.iloc[:, 0], the first of a column's most frequent labels
AllModes(results, rows) ==
    [col \in Runs |->
        CHOOSE m \in {results[c][col] : c \in rows} :
            \A l \in {results[c][col] : c \in rows} :
                \/ CountEq(results, rows, col, l) < CountEq(results, rows, col, m)
                \/ CountEq(results, rows, col, l) = CountEq(results, rows, col, m) /\ m <= l]

\* line 109: the mode counted over all cells
TotalModeCount(results, col, mode) == CountEq(results, TaskCells, col, mode)

\* lines 100-113: pureness_records[cluster]
ClusterPureness(results, rows) ==
    LET all_modes == AllModes(results, rows)
        cols == Ascending(Runs)
    IN FloatMean([i \in DOMAIN cols |->
                    CountDiv(CountEq(results, rows, cols[i], all_modes[cols[i]]),
                             Cardinality(rows))])

\* lines 100-114: completeness_records[cluster]
ClusterCompleteness(results, rows) ==
    LET all_modes == AllModes(results, rows)
        cols == Ascending(Runs)
    IN FloatMean([i \in DOMAIN cols |->
                    CountDiv(CountEq(results, rows, cols[i], all_modes[cols[i]]),
                             TotalModeCount(results, cols[i], all_modes[cols[i]]))])

\* lines 116-118: 1 - portion of the runs in which the cell has its cluster's mode
CellAmbiguity(results, rows, cell) ==
    LET all_modes == AllModes(results, rows)
        hits == Cardinality({col \in Runs : results[cell][col] = all_modes[col]})
    IN FloatSub(FloatOf(1), CountDiv(hits, Cardinality(Runs)))

\* line 123: final_cluster.value_counts() / final_cluster.size
FinalPortion(final_cluster) ==
    [cluster \in Range(final_cluster) |->
        CountDiv(Cardinality(SubRows(final_cluster, cluster)), Cardinality(TaskCells))]

\* lines 124, 126: record * final_portion, aligned on the cluster labels
Weighted(records, final_portion) ==
    [cl \in DOMAIN records |-> FloatMul(records[cl], final_portion[cl])]

\* lines 125, 127: .sum() of a Series, in the order of its (ascending) index
SeriesSum(series) ==
    LET cl == Ascending(DOMAIN series)
    IN FloatSum([i \in DOMAIN cl |-> series[cl[i]]])

\* the whole function past line 88, lines 89-139
_kmode_on_multi_leiden(results, k, final_cluster) ==
    LET present == Range(final_cluster)
        pureness == [cl \in present |->
                        ClusterPureness(results, SubRows(final_cluster, cl))]
        completeness == [cl \in present |->
                            ClusterCompleteness(results, SubRows(final_cluster, cl))]
        final_portion == FinalPortion(final_cluster)
    IN [cluster |-> final_cluster,
        n_cluster |-> Cardinality(present),
        cluster_pureness |-> pureness,
        weighted_cluster_pureness |-> Weighted(pureness, final_portion),
        cluster_completeness |-> completeness,
        weighted_cluster_completeness |-> Weighted(completeness, final_portion),
        cell_ambiguity |->
            [c \in TaskCells |->
                CellAmbiguity(results, SubRows(final_cluster, final_cluster[c]), c)],
        overall_pureness |-> SeriesSum(Weighted(pureness, final_portion)),
        overall_completeness |-> SeriesSum(Weighted(completeness, final_portion)),
        k |-> k]

\* lines 87-89: KModes assigns every cell one of the k clusters
KModesFit ==
    /\ tpc = "call"
    /\ clusters' \in FitPredicts(task_k)
    /\ tpc' = "fitted"
    /\ UNCHANGED <<uns, judge_vars, sweep_vars, multi_leiden_result, task_k, task_result>>

\* lines 91-139
KmodeMeasure ==
    /\ tpc = "fitted"
    /\ task_result' = _kmode_on_multi_leiden(multi_leiden_result, task_k, clusters)
    /\ tpc' = "returned"
    /\ UNCHANGED <<uns, judge_vars, sweep_vars, multi_leiden_result, task_k, clusters>>

\* a call of _kmode_on_multi_leiden
InitTask ==
    /\ JudgeIdle
    /\ uns = AbsentUns
    /\ SweepIdle
    /\ multi_leiden_result \in LabelMatrices
    /\ task_k \in TaskKs
    /\ clusters = <<>>
    /\ tpc = "call"
    /\ task_result = <<>>

NextTask ==
    \/ KModesFit
    \/ KmodeMeasure

SpecTask == InitTask /\ [][NextTask]_vars

(***************************************************************************)
(* Properties of the selector and the filter, checked under SpecJudge      *)
(***************************************************************************)
Passing(items, pcut, ccut) ==
    {b \in Range(items) : b.overall_pureness > pcut /\ b.overall_completeness > ccut}

\* the n_cluster of the bundle stored under (resolution, k)
SelectedClusters(resolution, k) == N_cluster(BundleAt(uns.results[resolution], k))

\* the frame of the resolution is scanned in ascending k
AscendingScan(kmode_results) ==
    LET df == OverallDf(kmode_results.items, pandas_sorts)
    IN \A i, j \in DOMAIN df : i < j => df[i].k < df[j].k

\* C1: whenever _select_optimal_k returned a k for a resolution whose candidates
\* it scanned in ascending k, that k passes both cutoffs and no passing k of
\* the resolution has strictly more clusters.
C1_SelectedKHasMostClusters ==
    \A i \in DOMAIN opt_ks :
        LET pass == Passing(uns.results[opt_ks[i][1]].items,
                            pureness_cutoff, completeness_cutoff)
        IN AscendingScan(uns.results[opt_ks[i][1]]) =>
              \E b \in pass :
                 /\ b.k = opt_ks[i][2]
                 /\ \A q \in pass : N_cluster(q) <= N_cluster(b)

\* C2: the best resolution is the one whose selected k yields the largest
\* cluster count among the resolutions the loop has been through.
C2_BestResolutionHasMostClusters ==
    best_resolution # NoneVal =>
        \A i \in DOMAIN opt_ks :
            SelectedClusters(opt_ks[i][1], opt_ks[i][2])
                <= SelectedClusters(best_resolution[1], max_opt_k)

\* every resolution has candidate k, none of which passes the cutoffs
NoPassingK ==
    /\ uns.present
    /\ \A r \in DOMAIN uns.results :
          /\ ~uns.results[r].isNone
          /\ Passing(uns.results[r].items, pureness_cutoff, completeness_cutoff) = {}

\* C3: when no k of any resolution passes the cutoffs, the judge does not
\* raise, and it ends having reported the failure with adata.obs untouched.
C3_NoPassingKIsReported ==
    NoPassingK =>
        /\ jpc # "raised"
        /\ jpc = "done" => (reported /\ obs = <<>>)

\* _filter_cell_and_cluster was called on the selected bundle and is over
FilterActed ==
    /\ uns.present
    /\ jpc \in {"done", "raised"}
    /\ ji > Len(uns.parameter.resolutions)
    /\ best_resolution # NoneVal

\* C4: once a (resolution, k) is selected, the annotation completes without
\* error and every cell's LK_masked_cluster is the null marker when
\* LK_final_judge is False and str(LK_cluster) when it is True.
C4_MaskingFollowsFinalJudge ==
    FilterActed =>
        /\ jexc = "none"
        /\ HasColumn(obs, "LK_final_judge")
        /\ HasColumn(obs, "LK_masked_cluster")
        /\ \A c \in Cells :
              obs["LK_masked_cluster"][c] =
                  IF obs["LK_final_judge"][c]
                  THEN ToString(obs["LK_cluster"][c]) ELSE NaN

\* C5: LK_final_judge of a cell is True iff its ambiguity is within the
\* cutoff and its cluster holds more than cluster_portion_cutoff of the
\* ambiguity-passing cells.
C5_FinalJudgeIsBothGates ==
    FilterActed =>
        /\ HasColumn(cell_data, "LK_final_judge")
        /\ LET b == BundleAt(uns.results[best_resolution[1]], max_opt_k)
               ok == {c \in Cells : b.cell_ambiguity[c] <= cell_ambiguity_cutoff}
               size(l) == Cardinality({c \in ok : b.cluster[c] = l})
           IN \A c \in Cells :
                 cell_data["LK_final_judge"][c] <=>
                     (c \in ok /\ size(b.cluster[c]) * 1000
                                    > Cardinality(ok) * cluster_portion_cutoff)

\* C6: raising the cutoffs never increases the cluster count of the k that
\* _select_optimal_k selects (candidates scanned in ascending k), whenever
\* both selections exist.
C6_SelectorMonotone ==
    uns.present =>
        \A r \in DOMAIN uns.results : \A p1, p2, c1, c2 \in Levels :
            LET lo == _select_optimal_k(uns.results[r], p1, c1, pandas_sorts)
                hi == _select_optimal_k(uns.results[r], p2, c2, pandas_sorts)
            IN (/\ p1 <= p2 /\ c1 <= c2
                /\ lo.exc = "none" /\ hi.exc = "none"
                /\ AscendingScan(uns.results[r]))
                  => SelectedClusters(r, hi.k) <= SelectedClusters(r, lo.k)

(***************************************************************************)
(* Properties of the sweep, checked under Spec                             *)
(***************************************************************************)
\* C7: once a chunk task of an ensemble has raised, the call has failed with
\* that exception and no matrix has been returned, in every arrival order.
C7_ChunkFailureFailsEnsemble ==
    leiden_failed =>
        /\ spc = "raised"
        /\ exc = "WorkerError"
        /\ matrix = NoneVal

\* a chunk raised after another chunk's frame had been collected, others pending
C7_Witness ==
    /\ leiden_failed
    /\ ml_results # <<>>
    /\ fut_pending # {}

\* C8: once any worker task has raised, the sweep has failed with that
\* exception and both adata.uns slots are as they were before the call.
C8_FailedSweepPersistsNothing ==
    worker_failed =>
        /\ spc = "raised"
        /\ exc = "WorkerError"
        /\ uns = uns_before

\* a k task raised at a later resolution, after an earlier one was stored
C8_Witness ==
    /\ worker_failed
    /\ ~leiden_failed
    /\ k_result_dict # <<>>
    /\ \E r \in DOMAIN total_results : ~total_results[r].isNone

EmptyAutoRange(r) ==
    /\ args.kmode_ks.auto
    /\ AutoKs(klog[r].mode_k, args.n_cells) = <<>>

\* C9: a resolution whose auto k range is empty gets a null entry and no k
\* task, raises nothing, and the loop goes on: a completed call has written
\* adata.uns with one entry per resolution.
C9_EmptyRangeSkipsResolution ==
    \A r \in DOMAIN klog :
        EmptyAutoRange(r) =>
            /\ klog[r].submitted = <<>>
            /\ r \in DOMAIN total_results
            /\ total_results[r] = NoneResult
            /\ ri > r
            /\ spc = "done" =>
                  /\ uns.present
                  /\ DOMAIN uns.results = DOMAIN args.resolutions
                  /\ uns.results[r] = NoneResult
                  /\ uns.parameter.resolutions = args.resolutions

\* the first resolution was skipped, a later one ran its k tasks, the call ended
C9_Witness ==
    /\ spc = "done"
    /\ 1 \in DOMAIN klog
    /\ EmptyAutoRange(1)
    /\ \E r \in DOMAIN uns.results : r > 1 /\ ~uns.results[r].isNone

\* C10 as stated: every resolution whose mode_k exceeds hard_k_max gets a
\* null entry and no k task.
C10_ModeAboveHardMaxIsSkipped ==
    \A r \in DOMAIN klog :
        (args.kmode_ks.auto /\ klog[r].mode_k > HardKMax(args.n_cells)) =>
            /\ klog[r].submitted = <<>>
            /\ r \in DOMAIN total_results
            /\ total_results[r] = NoneResult

\* C10 amended: every resolution whose mode_k exceeds hard_k_max by at least
\* 10, or whose mode_k exceeds a hard_k_max of at most hard_k_min, gets a null
\* entry and no k task, and raises nothing.
C10_ModeFarAboveHardMaxIsSkipped ==
    \A r \in DOMAIN klog :
        (/\ args.kmode_ks.auto
         /\ klog[r].mode_k > HardKMax(args.n_cells)
         /\ \/ klog[r].mode_k - 10 >= HardKMax(args.n_cells)
            \/ HardKMax(args.n_cells) <= HardKMin) =>
            /\ klog[r].submitted = <<>>
            /\ r \in DOMAIN total_results
            /\ total_results[r] = NoneResult
            /\ ri > r

\* a completed call in which a resolution had mode_k >= hard_k_max + 10
C10_Witness ==
    /\ spc = "done"
    /\ \E r \in DOMAIN klog :
          /\ args.kmode_ks.auto
          /\ klog[r].mode_k - 10 >= HardKMax(args.n_cells)
          /\ HardKMax(args.n_cells) > HardKMin
          /\ uns.results[r] = NoneResult

(***************************************************************************)
(* The auto k window, checked under Spec                                   *)
(***************************************************************************)
\* the values lo, lo + 2, lo + 4, ... strictly below hi, in ascending order
IsSteppedWindow(ks, lo, hi) ==
    /\ Range(ks) = {k \in lo..(hi - 1) : (k - lo) % 2 = 0}
    /\ \A i, j \in DOMAIN ks : i < j => ks[i] < ks[j]

\* C11: with kmode_ks='auto' the k list of every resolution is exactly
\* max(mode_k-10, 5), +2, +4, ... strictly below min(2*mode_k, floor(N/50));
\* every k a task is submitted for has 5 <= k < floor(N/50), so N/k >= 50.
C11_AutoWindowIsBounded ==
    args.kmode_ks.auto =>
        /\ \A r \in DOMAIN klog :
              /\ IsSteppedWindow(klog[r].submitted,
                                 Max(klog[r].mode_k - 10, 5),
                                 Min(2 * klog[r].mode_k, args.n_cells \div 50))
              /\ \A i \in DOMAIN klog[r].submitted :
                    /\ 5 <= klog[r].submitted[i]
                    /\ klog[r].submitted[i] < args.n_cells \div 50
                    /\ 50 * klog[r].submitted[i] <= args.n_cells
        /\ \A k \in kfut_pending :
              5 <= k /\ k < args.n_cells \div 50 /\ 50 * k <= args.n_cells

\* an auto sweep ended after a resolution got several k tasks and another
\* resolution a single one at the upper end of its window
C11_Witness ==
    /\ spc = "done"
    /\ args.kmode_ks.auto
    /\ \E r \in DOMAIN klog : Len(klog[r].submitted) >= 3
    /\ \E r \in DOMAIN klog :
          /\ Len(klog[r].submitted) = 1
          /\ klog[r].submitted[1] + 1 = args.n_cells \div 50

(***************************************************************************)
(* The ensemble's matrix, checked under Spec                               *)
(***************************************************************************)
\* the chunk frames of the matrix an invocation returns when its chunk tasks
\* complete in the order they were submitted
InSubmissionOrder(chs) == [j \in DOMAIN chs |-> j]

\* C12: the matrix _multi_leiden_clustering returns, the order of its
\* seed-keyed columns included, is the same for every order in which the
\* chunk tasks complete: it is the matrix of the invocation whose tasks
\* complete in submission order.
C12_MatrixIgnoresCompletionOrder ==
    matrix # NoneVal => matrix[1] = InSubmissionOrder(chunks)

\* number of columns (runs) of a returned matrix: the sizes of its chunk frames
RECURSIVE NColumns(_, _)
NColumns(frames, chs) ==
    IF frames = <<>> THEN 0
    ELSE (chs[Head(frames)].hi - chs[Head(frames)].lo) + NColumns(Tail(frames), chs)

\* C13: the matrix a resolution hands to the k sweep has exactly
\* leiden_repeats columns, and the 'leiden_repeats' a completed call recorded
\* in adata.uns['leiden_kmode_parameter'] is the number of runs it performed
\* per resolution.
C13_MatrixHasLeidenRepeatsColumns ==
    /\ matrix # NoneVal => NColumns(matrix[1], chunks) = args.leiden_repeats
    /\ (spc = "done" /\ chunks # <<>>) =>
            uns.parameter.leiden_repeats = chunks[Len(chunks)].hi

(***************************************************************************)
(* The judge on the dicts a sweep collected, checked under SpecJudge       *)
(***************************************************************************)
\* the dicts holding the same bundles as items, in every insertion order
ArrivalOrders(items) ==
    {Dict(d) : d \in {a \in Arrangements(Range(items), Len(items)) :
                        Len(a) = Len(items) /\ NoRepeat(a)}}

\* C15: the k _select_optimal_k returned for a resolution does not depend on
\* the order in which the k tasks arrived: the frame was scanned in ascending
\* k, and every arrival order of the same bundles returns that same k.
C15_SelectionIgnoresArrivalOrder ==
    \A i \in DOMAIN opt_ks :
        LET kmode_results == uns.results[opt_ks[i][1]]
        IN /\ AscendingScan(kmode_results)
           /\ \A other \in ArrivalOrders(kmode_results.items) :
                 _select_optimal_k(other, pureness_cutoff, completeness_cutoff,
                                   pandas_sorts)
                     = [exc |-> "none", k |-> opt_ks[i][2]]

\* the judge is at, or past, a resolution whose entry is None
AtSkippedResolution(r) ==
    /\ uns.present
    /\ r \in DOMAIN uns.parameter.resolutions
    /\ uns.results[uns.parameter.resolutions[r]].isNone
    /\ jpc # "start"
    /\ ji >= r

\* C17: the judge finds an entry for every resolution listed in the stored
\* parameters, and a resolution whose entry is None contributes nothing: the
\* loop goes past it without raising and without selecting it.
C17_SkippedResolutionIsIgnored ==
    /\ uns.present =>
          \A r \in DOMAIN uns.parameter.resolutions :
              uns.parameter.resolutions[r] \in DOMAIN uns.results
    /\ \A r \in 1..NumRes :
          AtSkippedResolution(r) =>
              /\ ~(jpc = "raised" /\ ji = r)
              /\ best_resolution # Some(uns.parameter.resolutions[r])

(***************************************************************************)
(* The partition of the seeds, checked under SpecEnsemble                  *)
(***************************************************************************)
\* line 79: the columns of a chunk's frame are its seeds, random_states[lo:hi]
ChunkSeeds(seeds, ch) == SubSeq(seeds, ch.lo + 1, ch.hi)

\* line 65: the columns of the matrix, frame after frame
RECURSIVE MatrixSeeds(_, _, _)
MatrixSeeds(frames, chs, seeds) ==
    IF frames = <<>> THEN <<>>
    ELSE ChunkSeeds(seeds, chs[Head(frames)]) \o MatrixSeeds(Tail(frames), chs, seeds)

\* the call got past the check of line 17
PastNeighborsCheck == spc # "call" /\ args.has_neighbors

\* the seeds are distinct and split into ceil(n/step) contiguous chunks of at
\* most step seeds, one task each; a returned matrix has one column per seed
SeedsArePartitioned ==
    LET n == args.n
        step == IF n \div args.cpu > 5 THEN n \div args.cpu ELSE 5
        arrived == [i \in DOMAIN ml_results |-> ml_results[i].chunk]
    IN /\ chunks # <<>>
       /\ LET seeds == RandomStates(n, args.seed_of_seeds)
          IN /\ Len(seeds) = n
             /\ \A i, j \in 1..n : i # j => seeds[i] # seeds[j]
             /\ Len(chunks) * step >= n
             /\ (Len(chunks) - 1) * step < n
             /\ chunks[1].lo = 0
             /\ chunks[Len(chunks)].hi = n
             /\ \A j \in DOMAIN chunks :
                   /\ chunks[j].lo < chunks[j].hi
                   /\ chunks[j].hi - chunks[j].lo <= step
                   /\ j > 1 => chunks[j].lo = chunks[j - 1].hi
             /\ \A i \in 1..n :
                   Cardinality({j \in DOMAIN chunks :
                                  chunks[j].lo < i /\ i <= chunks[j].hi}) = 1
             /\ NoRepeat(arrived)
             /\ Range(arrived) \cap fut_pending = {}
             /\ ~leiden_failed => Range(arrived) \cup fut_pending = DOMAIN chunks
             /\ spc = "returned" =>
                   LET cols == MatrixSeeds(matrix[1], chunks, seeds)
                   IN /\ Len(cols) = n
                      /\ NoRepeat(cols)
                      /\ Range(cols) = Range(seeds)

\* C16 as stated: for every n >= 1 and cpu >= 1 the call draws n distinct
\* seeds, splits them into ceil(n/step) contiguous chunks of at most step
\* seeds, submits one task per chunk and returns one column per seed.
C16_EveryRepeatCountIsPartitioned ==
    (PastNeighborsCheck /\ args.n >= 1 /\ args.cpu >= 1) => SeedsArePartitioned

\* C16 amended: the same for every n from 1 to the seed population, 99999.
C16_RepeatCountsUpToPopulationArePartitioned ==
    (PastNeighborsCheck /\ args.n >= 1 /\ args.n <= SeedPopulation /\ args.cpu >= 1)
        => SeedsArePartitioned

\* a call returned whose last chunk is shorter than the others and arrived first
C16_Witness ==
    /\ spc = "returned"
    /\ Len(chunks) = 3
    /\ chunks[3].hi - chunks[3].lo < chunks[1].hi - chunks[1].lo
    /\ matrix[1][1] = 3

(***************************************************************************)
(* Properties of the result bundle, checked under SpecTask                 *)
(***************************************************************************)
\* x is a number between 0 and 1
InUnitInterval(x) ==
    /\ ~x.nan
    /\ FloatCmp(FZero, x) <= 0
    /\ FloatCmp(x, FloatOf(1)) <= 0

\* label is the per-run mode of the cluster of cell c in run col: no label is
\* more frequent among the cluster's cells, and no equally frequent one is smaller
IsClusterMode(c, col, label) ==
    LET rows == {d \in TaskCells : clusters[d] = clusters[c]}
        freq(l) == Cardinality({d \in rows : multi_leiden_result[d][col] = l})
    IN /\ freq(label) > 0
       /\ \A l \in LabelSet : freq(l) < freq(label) \/ (freq(l) = freq(label) /\ label <= l)

\* the cluster size / N fractions, cluster after cluster
WeightingFractions ==
    LET cl == Ascending(Range(clusters))
    IN [i \in DOMAIN cl |->
           CountDiv(Cardinality({c \in TaskCells : clusters[c] = cl[i]}),
                    Cardinality(TaskCells))]

\* C14: in every bundle _kmode_on_multi_leiden returns, the weighting
\* fractions sum to exactly 1, overall pureness and completeness lie in
\* [0, 1], no per-cluster completeness has a zero denominator, every cell's
\* ambiguity lies in [0, 1], and a cell whose label is its cluster's per-run
\* mode in every run has ambiguity exactly 0.
C14_BundleMetricsAreFractions ==
    tpc = "returned" =>
        /\ FloatSum(WeightingFractions) = FloatOf(1)
        /\ InUnitInterval(task_result.overall_pureness)
        /\ InUnitInterval(task_result.overall_completeness)
        /\ \A cl \in Range(clusters) :
              /\ cl \in DOMAIN task_result.cluster_completeness
              /\ ~task_result.cluster_completeness[cl].nan
              /\ \A col \in Runs :
                    TotalModeCount(multi_leiden_result, col,
                        AllModes(multi_leiden_result, SubRows(clusters, cl))[col]) # 0
        /\ \A c \in TaskCells :
              /\ InUnitInterval(task_result.cell_ambiguity[c])
              /\ (\A col \in Runs : IsClusterMode(c, col, multi_leiden_result[c][col]))
                    => task_result.cell_ambiguity[c] = FZero

====
